---- MODULE Spec2Model ----
(***************************************************************************)
(* Model of the SERP analyzer's content-scoring pipeline                   *)
(* (src/streamlit-app.py): the per-URL orchestrator scrape_and_analyze,    *)
(* the fetcher scrape_with_retry, the ContentAnalyzer scoring functions    *)
(* and the session-level memoisation in display_analysis_results.          *)
(*                                                                         *)
(* Text.  A Python string is modelled as a sequence of atoms.  An atom     *)
(* [ch |-> c, n |-> k] stands for                                          *)
(*   c = "w"            : k words "w" joined by single spaces ("w w w")    *)
(*   c = " ",".","!","?": that one character (k = 1)                       *)
(*   c = "good", "fejl" : that keyword, once (k = 1)                       *)
(* and a text is the concatenation of its atoms, so <<W(2), Dot, W(1)>>    *)
(* is the string "w w.w".                                                  *)
(*                                                                         *)
(* Numbers.  Python floats are modelled as exact fractions                 *)
(* [num |-> a, den |-> b] in lowest terms with b > 0; VADER's scores are   *)
(* kept in thousandths.                                                    *)
(***************************************************************************)
EXTENDS Integers, Sequences, FiniteSets, TLC

VARIABLES
    language,           \* main: the language chosen in the "Select Language" box
    analysis_results,   \* st.session_state.analysis_results: link -> record
    pc,                 \* position of the running script: "idle", "get", "reget"
    cur_url,            \* url argument of the running/last scrape_and_analyze call
    sel_language,       \* language selected in main when that call was triggered
    analyzer_language,  \* language ContentAnalyzer was constructed with ("none": never)
    attempt,            \* scrape_with_retry: loop variable attempt
    trace,              \* scrape_with_retry: outcomes of the session.get calls made
    response,           \* scrape_with_retry: the response whose .text was returned
    outcome,            \* how the last display ended: none/cached/returned/raised
    calls,              \* link -> number of scrape_and_analyze invocations so far
    text,               \* analyze_text_quality: its argument (quality specification)
    quality,            \* analyze_text_quality: its return value (quality specification)
    serp                \* get_all_serp_results: its argument, locals and return value

vars == <<language, analysis_results, pc, cur_url, sel_language, analyzer_language,
          attempt, trace, response, outcome, calls, text, quality, serp>>

sessionVars == <<language, analysis_results, pc, cur_url, sel_language,
                 analyzer_language, attempt, trace, response, outcome, calls>>

---------------------------------------------------------------------------
(* Bounds of the model *)

\* Longest text, in atoms, the quality specification enumerates.
MaxAtoms == 3

\* Cap on the per-link invocation counter calls.
MaxCalls == 2

\* Largest num_results the pagination specification enumerates.
MaxNum == 25

\* Run lengths of the word atoms the quality specification enumerates: they
\* straddle both thresholds of analyze_text_quality.
RunLens == {1, 4, 5, 6, 39, 40, 41}

---------------------------------------------------------------------------
(* Fractions *)

Abs(x) == IF x < 0 THEN -x ELSE x

RECURSIVE GCD(_, _)
GCD(a, b) == IF b = 0 THEN a ELSE GCD(b, a % b)

Frac(a, b) ==
    LET g == GCD(Abs(a), b)
    IN  [num |-> a \div g, den |-> b \div g]

Zero == [num |-> 0, den |-> 1]

---------------------------------------------------------------------------
(* Text *)

W(k) == [ch |-> "w", n |-> k]
Ch(c) == [ch |-> c, n |-> 1]
Sp == Ch(" ")
Dot == Ch(".")
Bang == Ch("!")
Qm == Ch("?")

Atoms == {Sp, Dot, Bang, Qm} \cup {W(k) : k \in RunLens}

RECURSIVE SeqsUpTo(_, _)
SeqsUpTo(S, k) ==
    IF k = 0 THEN {<<>>}
    ELSE LET shorter == SeqsUpTo(S, k - 1)
         IN  shorter \cup {Append(s, a) : s \in {x \in shorter : Len(x) = k - 1}, a \in S}

Texts == SeqsUpTo(Atoms, MaxAtoms)

\* len(t.split()): the number of maximal runs of non-whitespace characters in
\* t[i..], inWord telling whether t[i-1] ended inside such a run.
RECURSIVE Tokens(_, _, _)
Tokens(t, i, inWord) ==
    IF i > Len(t) THEN 0
    ELSE IF t[i].ch = " " THEN Tokens(t, i + 1, FALSE)
    ELSE (IF inWord THEN t[i].n - 1 ELSE t[i].n) + Tokens(t, i + 1, TRUE)

count_words(t) == Tokens(t, 1, FALSE)

\* len(t): the number of characters.
RECURSIVE StrLen(_)
StrLen(t) ==
    IF t = <<>> THEN 0
    ELSE (CASE Head(t).ch = "w" -> 2 * Head(t).n - 1
            [] Head(t).ch \in {"good", "fejl"} -> 4
            [] OTHER -> 1) + StrLen(Tail(t))

\* t.split(sep) for the one-character separators in seps: the pieces between
\* the separators, empty pieces kept.
RECURSIVE SplitOn(_, _)
SplitOn(t, seps) ==
    LET at == {i \in 1..Len(t) : t[i].ch \in seps}
    IN  IF at = {} THEN <<t>>
        ELSE LET i == CHOOSE j \in at : \A k \in at : j <= k
             IN  <<SubSeq(t, 1, i - 1)>> \o SplitOn(SubSeq(t, i + 1, Len(t)), seps)

RECURSIVE SumTokens(_)
SumTokens(pieces) ==
    IF pieces = <<>> THEN 0
    ELSE count_words(Head(pieces)) + SumTokens(Tail(pieces))

\* ' '.join(t.split()): whitespace runs collapsed to one space, ends trimmed.
RECURSIVE Collapse(_, _)
Collapse(t, pendingSpace) ==
    IF t = <<>> THEN <<>>
    ELSE IF Head(t).ch = " " THEN Collapse(Tail(t), TRUE)
    ELSE (IF pendingSpace THEN <<Sp>> ELSE <<>>) \o <<Head(t)>> \o Collapse(Tail(t), FALSE)

RECURSIVE LStrip(_)
LStrip(t) == IF t # <<>> /\ Head(t).ch = " " THEN LStrip(Tail(t)) ELSE t

Normalize(t) == Collapse(LStrip(t), FALSE)

---------------------------------------------------------------------------
(* ContentAnalyzer *)

\* The sentence separators of analyze_text_quality.
SentenceSeps == {"."}

\* A variant that also splits at '!' and '?'.
analyze_text_quality_AllPunct(t) ==
    LET sentences == SplitOn(t, {".", "!", "?"})
        avg == Frac(SumTokens(sentences), Len(sentences))
    IN  [avg_sentence_length |-> avg,
         sentence_length_score |->
            IF avg.num < 5 * avg.den THEN 5
            ELSE IF avg.num > 40 * avg.den THEN 7 ELSE 10]

\* A variant whose lower threshold is not strict.
analyze_text_quality_NonStrict(t) ==
    LET sentences == SplitOn(t, SentenceSeps)
        avg == Frac(SumTokens(sentences), Len(sentences))
    IN  [avg_sentence_length |-> avg,
         sentence_length_score |->
            IF avg.num <= 5 * avg.den THEN 5
            ELSE IF avg.num > 40 * avg.den THEN 7 ELSE 10]

\* A variant whose "too fragmented" bucket scores nothing.
analyze_text_quality_NoShortScore(t) ==
    LET sentences == SplitOn(t, SentenceSeps)
        avg == Frac(SumTokens(sentences), Len(sentences))
    IN  [avg_sentence_length |-> avg,
         sentence_length_score |->
            IF avg.num < 5 * avg.den THEN 0
            ELSE IF avg.num > 40 * avg.den THEN 7 ELSE 10]

\* analyze_text_quality: sentence_length_score in tenths.
analyze_text_quality(t) ==
    LET sentences == SplitOn(t, SentenceSeps)
        avg == IF Len(sentences) > 0
               THEN Frac(SumTokens(sentences), Len(sentences))
               ELSE Zero
    IN  [avg_sentence_length |-> avg,
         sentence_length_score |->
            IF avg.num < 5 * avg.den THEN 5
            ELSE IF avg.num > 40 * avg.den THEN 7 ELSE 10]

NoQuality == [avg_sentence_length |-> Zero, sentence_length_score |-> -1]

\* get_all_serp_results is not running.
NoSerp ==
    [pc |-> "none", has_key |-> FALSE, num_results |-> 0, all_results |-> <<>>,
     start |-> 0, offsets |-> <<>>, batches |-> <<>>, result |-> <<>>]

---------------------------------------------------------------------------
(* Inputs of the session: links, pages, transport outcomes *)

GoodUrl == "http://a.example/page"
OtherUrl == "http://b.example/"
\* A link urllib.parse.urlparse rejects with ValueError("Invalid IPv6 URL").
BadUrl == "http://["

URLS == {GoodUrl, OtherUrl, BadUrl}

LANGUAGES == {"en", "da"}

\* urlparse(url) raises ValueError.
UrlparseRaises(url) == url = BadUrl

\* urlparse(url).netloc
Netloc(url) ==
    CASE url = GoodUrl -> "a.example"
      [] url = OtherUrl -> "b.example"
      [] OTHER -> ""

\* Response bodies.  body = "empty" is the empty string "", "markup" anything
\* else; accept tells whether a <button>/<a> whose text matches
\* accept|accept all|accepter|tillad is present; raw is the concatenated,
\* stripped text of the elements scrape_and_analyze selects.
Pages == {"empty", "blank", "accept", "positive", "danish", "long"}

Body(p) == IF p = "empty" THEN "empty" ELSE "markup"

HasAccept(p) == p = "accept"

Raw(p) ==
    CASE p = "positive" ->
            <<Sp, W(4), Sp, Ch("good"), Dot, Sp, Sp, W(6), Sp>>
      [] p = "danish" -> <<Ch("fejl"), Sp, W(2)>>
      [] p = "long" -> <<W(120), Bang>>
      [] OTHER -> <<>>

\* Bodies that come with a non-200 status.
ErrorPages == {"empty", "danish"}

Responses ==
    {[kind |-> "resp", status |-> 200, page |-> p] : p \in Pages}
    \cup {[kind |-> "resp", status |-> 404, page |-> p] : p \in ErrorPages}

Raises == [kind |-> "exc", status |-> 0, page |-> "none"]

NoResponse == [kind |-> "none", status |-> 0, page |-> "none"]

\* What session.get(url, ...) can do: raise (timeout, connection error,
\* invalid URL) or return a response.
GetOutcomes(url) ==
    IF UrlparseRaises(url) THEN {Raises} ELSE {Raises} \cup Responses

Tag(o) ==
    IF o.kind = "exc" THEN "exc"
    ELSE IF o.status = 200 THEN "200" ELSE "404"

---------------------------------------------------------------------------
(* Scoring *)

POSITIVE_KEYWORDS == [en |-> {"good"}, da |-> {}]
NEGATIVE_KEYWORDS == [en |-> {}, da |-> {"fejl"}]

\* count_keywords: the summed substring counts of the keywords.
count_keywords(t, keyword_list) ==
    Cardinality({i \in 1..Len(t) : t[i].ch \in keyword_list})

\* VADER's polarity_scores in thousandths: all zero on a text without words,
\* otherwise some scores of the lexicon's choosing.
ZeroSent == [compound |-> 0, neg |-> 0, neu |-> 0, pos |-> 0]
NeutralSent == [compound |-> 0, neg |-> 0, neu |-> 1000, pos |-> 0]
PosSent == [compound |-> 600, neg |-> 0, neu |-> 500, pos |-> 500]
NegSent == [compound |-> -600, neg |-> 500, neu |-> 500, pos |-> 0]

polarity_scores(t) ==
    IF count_words(t) = 0 THEN {ZeroSent} ELSE {NeutralSent, PosSent, NegSent}

\* analyze_content, given the sentiment VADER returned.
analyze_content(lang, t, sentiment) ==
    LET negative_count == count_keywords(t, NEGATIVE_KEYWORDS[lang])
        positive_count == count_keywords(t, POSITIVE_KEYWORDS[lang])
        quality_metrics == analyze_text_quality(t)
        total_words == count_words(t)
        keyword_ratio == IF total_words > 0
                         THEN Frac(positive_count - negative_count, total_words)
                         ELSE Zero
        \* compound/1000 * 0.4 + keyword_ratio * 0.4 + score/10 * 0.2
        combined_score ==
            Frac(4 * sentiment.compound * keyword_ratio.den
                   + 4000 * keyword_ratio.num
                   + 200 * quality_metrics.sentence_length_score * keyword_ratio.den,
                 10000 * keyword_ratio.den)
    IN  [sentiment |-> sentiment,
         keyword_analysis |-> [positive_count |-> positive_count,
                               negative_count |-> negative_count,
                               keyword_ratio |-> keyword_ratio],
         text_quality |-> quality_metrics,
         combined_score |-> combined_score]

\* get_summary(text, word_count): the text itself, or its first word_count
\* words followed by "...".
get_summary(t, word_count) ==
    LET n == count_words(t)
    IN  [error |-> "",
         words |-> IF n <= word_count THEN n ELSE word_count,
         ellipsis |-> n > word_count]

SummaryWords == 100

---------------------------------------------------------------------------
(* scrape_and_analyze *)

\* A failure record that still carries the neutral quality contribution.
FailureRecord_NeutralQuality(url, msg) ==
    [domain |-> Netloc(url),
     summary |-> [error |-> msg, words |-> 0, ellipsis |-> FALSE],
     sentiment |-> 0,
     sentiment_detailed |-> NeutralSent,
     keyword_analysis |-> [positive_count |-> 0, negative_count |-> 0,
                           keyword_ratio |-> Zero],
     text_quality |-> [avg_sentence_length |-> Zero, sentence_length_score |-> 5],
     combined_score |-> Frac(1, 10),
     content_length |-> 0,
     word_count |-> 0,
     success |-> FALSE]

\* The record of the except branch.
FailureRecord(url, msg) ==
    [domain |-> Netloc(url),
     summary |-> [error |-> msg, words |-> 0, ellipsis |-> FALSE],
     sentiment |-> 0,
     sentiment_detailed |-> NeutralSent,
     keyword_analysis |-> [positive_count |-> 0, negative_count |-> 0,
                           keyword_ratio |-> Zero],
     text_quality |-> [avg_sentence_length |-> Zero, sentence_length_score |-> 0],
     combined_score |-> Zero,
     content_length |-> 0,
     word_count |-> 0,
     success |-> FALSE]

\* The record of the try branch.
SuccessRecord(url, t, analysis_result) ==
    [domain |-> Netloc(url),
     summary |-> get_summary(t, SummaryWords),
     sentiment |-> analysis_result.sentiment.compound,
     sentiment_detailed |-> analysis_result.sentiment,
     keyword_analysis |-> analysis_result.keyword_analysis,
     text_quality |-> analysis_result.text_quality,
     combined_score |-> analysis_result.combined_score,
     content_length |-> StrLen(t),
     word_count |-> count_words(t),
     success |-> TRUE]

NoRecord == [success |-> "none"]

\* What the try block can end in, given what scrape_with_retry did (fetch.kind
\* is "raise", "none" for a None return, or "content" with the response whose
\* text it returned): a record, or an exception (exc # "").  analyzer is the
\* language ContentAnalyzer was constructed with, "none" if the block never
\* got there.
TryBlock(url, lang, fetch) ==
    IF fetch.kind = "raise"
    THEN {[exc |-> "transport", record |-> NoRecord, analyzer |-> "none"]}
    ELSE IF fetch.kind = "none" \/ Body(fetch.resp.page) = "empty"
    THEN {[exc |-> "Could not retrieve content", record |-> NoRecord,
           analyzer |-> "none"]}
    ELSE LET t == Normalize(Raw(fetch.resp.page))
         IN  \* SentimentIntensityAnalyzer() finds no vader_lexicon
             {[exc |-> "lexicon", record |-> NoRecord, analyzer |-> lang]}
             \cup
             {IF UrlparseRaises(url)
              THEN [exc |-> "Invalid IPv6 URL", record |-> NoRecord, analyzer |-> lang]
              ELSE [exc |-> "",
                    record |-> SuccessRecord(url, t, analyze_content(lang, t, s)),
                    analyzer |-> lang]
              : s \in polarity_scores(t)}

\* The except branch: its record, unless urlparse(url) raises in it.
ExceptBlock(url, tried) ==
    IF UrlparseRaises(url)
    THEN [raised |-> TRUE, record |-> NoRecord, analyzer |-> tried.analyzer]
    ELSE [raised |-> FALSE, record |-> FailureRecord(url, tried.exc),
          analyzer |-> tried.analyzer]

\* The results scrape_and_analyze(url, lang) can have.
scrape_and_analyze(url, lang, fetch) ==
    {IF tried.exc = ""
     THEN [raised |-> FALSE, record |-> tried.record, analyzer |-> tried.analyzer]
     ELSE ExceptBlock(url, tried)
     : tried \in TryBlock(url, lang, fetch)}

---------------------------------------------------------------------------
(* scrape_with_retry *)

max_retries == 3

\* A loop that makes one attempt too many.
LoopContinues_OneMore(a) == a + 1 <= max_retries

\* for attempt in range(max_retries): another iteration follows attempt a.
LoopContinues(a) == a + 1 < max_retries

\* if attempt == max_retries - 1: raise e
LastAttempt(a) == a = max_retries - 1

---------------------------------------------------------------------------
(* The session *)

\* A caller that passes the selected language on.
DisplayLanguageArg_Selected(selected) == selected

\* The language argument display_analysis_results receives from
\* analyze_all_urls and analyze_selected_urls: they pass none, so its
\* default applies.
DisplayLanguageArg(selected) == "en"

InitSession ==
    /\ language = "en"
    /\ analysis_results = [u \in URLS |-> NoRecord]
    /\ pc = "idle"
    /\ cur_url = "none"
    /\ sel_language = "en"
    /\ analyzer_language = "none"
    /\ attempt = 0
    /\ trace = <<>>
    /\ response = NoResponse
    /\ outcome = "none"
    /\ calls = [u \in URLS |-> 0]

Init ==
    /\ InitSession
    /\ text = <<>>
    /\ quality = NoQuality
    /\ serp = NoSerp

\* main: the operator picks a language in the selectbox.
SelectLanguage(l) ==
    /\ pc = "idle"
    /\ l # language
    /\ language' = l
    /\ UNCHANGED <<analysis_results, pc, cur_url, sel_language, analyzer_language,
                   attempt, trace, response, outcome, calls, text, quality, serp>>

\* display_analysis_results for a link whose record is stored.
DisplayCached(url) ==
    /\ pc = "idle"
    /\ analysis_results[url] # NoRecord
    /\ cur_url' = url
    /\ sel_language' = language
    /\ analyzer_language' = "none"
    /\ attempt' = 0
    /\ trace' = <<>>
    /\ response' = NoResponse
    /\ outcome' = "cached"
    /\ UNCHANGED <<language, analysis_results, pc, calls, text, quality, serp>>

\* display_analysis_results for a link without a stored record: it calls
\* scrape_and_analyze, which calls scrape_with_retry.
DisplayFresh(url) ==
    /\ pc = "idle"
    /\ analysis_results[url] = NoRecord
    /\ calls[url] < MaxCalls
    /\ cur_url' = url
    /\ sel_language' = language
    /\ analyzer_language' = "none"
    /\ attempt' = 0
    /\ trace' = <<>>
    /\ response' = NoResponse
    /\ outcome' = "running"
    /\ calls' = [calls EXCEPT ![url] = @ + 1]
    /\ pc' = "get"
    /\ UNCHANGED <<language, analysis_results, text, quality, serp>>

\* scrape_with_retry is over: the rest of scrape_and_analyze runs, and
\* display_analysis_results stores the record it returns.
Finish(fetch) ==
    \E r \in scrape_and_analyze(cur_url, DisplayLanguageArg(sel_language), fetch) :
        /\ analyzer_language' = r.analyzer
        /\ response' = IF fetch.kind = "content" THEN fetch.resp ELSE NoResponse
        /\ outcome' = IF r.raised THEN "raised" ELSE "returned"
        /\ analysis_results' = IF r.raised THEN analysis_results
                               ELSE [analysis_results EXCEPT ![cur_url] = r.record]
        /\ pc' = "idle"
        /\ UNCHANGED attempt

\* except Exception as e: raise on the last attempt, else sleep and go on.
OnException ==
    IF LastAttempt(attempt)
    THEN Finish([kind |-> "raise", resp |-> NoResponse])
    ELSE IF LoopContinues(attempt)
    THEN /\ attempt' = attempt + 1
         /\ pc' = "get"
         /\ UNCHANGED <<analysis_results, analyzer_language, response, outcome>>
    ELSE Finish([kind |-> "none", resp |-> NoResponse])

\* response = session.get(url, headers=headers, timeout=15) at the top of the loop.
Get ==
    /\ pc = "get"
    /\ \E o \in GetOutcomes(cur_url) :
        /\ trace' = Append(trace, Tag(o))
        /\ IF o.kind = "exc" THEN OnException
           ELSE IF o.status = 200
           THEN IF HasAccept(o.page)
                THEN /\ pc' = "reget"
                     /\ UNCHANGED <<analysis_results, analyzer_language, attempt,
                                    response, outcome>>
                ELSE Finish([kind |-> "content", resp |-> o])
           ELSE IF LoopContinues(attempt)
           THEN /\ attempt' = attempt + 1
                /\ UNCHANGED <<analysis_results, analyzer_language, pc,
                               response, outcome>>
           ELSE Finish([kind |-> "none", resp |-> NoResponse])
    /\ UNCHANGED <<language, cur_url, sel_language, calls, text, quality, serp>>

\* The second session.get, after an accept button was found: its text is
\* returned whatever its status.
ReGet ==
    /\ pc = "reget"
    /\ \E o \in GetOutcomes(cur_url) :
        /\ trace' = Append(trace, Tag(o))
        /\ IF o.kind = "exc" THEN OnException
           ELSE Finish([kind |-> "content", resp |-> o])
    /\ UNCHANGED <<language, cur_url, sel_language, calls, text, quality, serp>>

Next ==
    \/ \E l \in LANGUAGES : SelectLanguage(l)
    \/ \E u \in URLS : DisplayCached(u)
    \/ \E u \in URLS : DisplayFresh(u)
    \/ Get
    \/ ReGet

Spec == Init /\ [][Next]_vars

---------------------------------------------------------------------------
(* get_all_serp_results *)

\* The page size the loop assumes: a shorter batch is the last one, and
\* start advances by it.
PageSize == 10

\* Sizes of the organic_results lists the search API may answer with.
BatchSizes == {0, 3, 10, 12}

\* What get_serp_results can return: None after an error ("error"), an
\* empty dict ("empty"), a dict without "organic_results" ("missing"), or a
\* dict whose "organic_results" holds size results ("batch").
SerpResponses ==
    {[kind |-> k, size |-> 0] : k \in {"error", "empty", "missing"}}
    \cup {[kind |-> "batch", size |-> k] : k \in BatchSizes}

\* results["organic_results"] of the r-th request: its i-th result is <<r, i>>.
Batch(r, size) == [i \in 1..size |-> <<r, i>>]

\* A loop condition that admits one more request when the list is just full.
KeepFetching_Inclusive(len, num_results) == len <= num_results

\* while len(all_results) < num_results
KeepFetching(len, num_results) == len < num_results

\* if not results or "organic_results" not in results: break
NoBatch(resp) == resp.kind \in {"error", "empty", "missing"}

\* if len(results["organic_results"]) < 10: break
ShortBatch(size) == size < PageSize

\* all_results[:num_results]
Take(seq, k) == SubSeq(seq, 1, IF Len(seq) < k THEN Len(seq) ELSE k)

\* The call get_all_serp_results(query, num_results, country, language):
\* offsets and batches record the start of every request made and the size of
\* every batch that was appended.
InitSerp ==
    /\ InitSession
    /\ text = <<>>
    /\ quality = NoQuality
    /\ \E n \in 1..MaxNum, key \in BOOLEAN :
          serp = [pc |-> "loop", has_key |-> key, num_results |-> n,
                  all_results |-> <<>>, start |-> 0, offsets |-> <<>>,
                  batches |-> <<>>, result |-> <<>>]

\* if 'SERPAPI_KEY' not in st.secrets: st.error(...); st.stop()
KeyMissing(has_key) == ~has_key

\* One iteration of the loop: the call of get_serp_results at start and what
\* follows from its answer.  Without a SERPAPI_KEY get_serp_results sends no
\* request: st.stop() ends the script run there, and get_all_serp_results
\* never returns (pc "stopped").
SerpRequest ==
    /\ serp.pc = "loop"
    /\ KeepFetching(Len(serp.all_results), serp.num_results)
    /\ \E resp \in SerpResponses :
        LET asked == Append(serp.offsets, serp.start)
        IN  IF KeyMissing(serp.has_key)
            THEN serp' = [serp EXCEPT !.pc = "stopped"]
            ELSE
            IF NoBatch(resp)
            THEN serp' = [serp EXCEPT !.offsets = asked, !.pc = "return"]
            ELSE LET extended == serp.all_results
                                   \o Batch(Len(serp.batches) + 1, resp.size)
                     fetched == Append(serp.batches, resp.size)
                 IN  IF ShortBatch(resp.size)
                     THEN serp' = [serp EXCEPT !.offsets = asked,
                                               !.batches = fetched,
                                               !.all_results = extended,
                                               !.pc = "return"]
                     ELSE serp' = [serp EXCEPT !.offsets = asked,
                                               !.batches = fetched,
                                               !.all_results = extended,
                                               !.start = @ + PageSize]
    /\ UNCHANGED <<text, quality, sessionVars>>

\* The loop is left, by its condition or by a break: the result is returned.
SerpReturn ==
    /\ \/ serp.pc = "return"
       \/ /\ serp.pc = "loop"
          /\ ~KeepFetching(Len(serp.all_results), serp.num_results)
    /\ serp' = [serp EXCEPT !.pc = "done",
                            !.result = Take(serp.all_results, serp.num_results)]
    /\ UNCHANGED <<text, quality, sessionVars>>

NextSerp == SerpRequest \/ SerpReturn

SpecSerp == InitSerp /\ [][NextSerp]_vars

---------------------------------------------------------------------------
(* The quality specification: analyze_text_quality on every bounded text *)

InitQuality ==
    /\ InitSession
    /\ text \in Texts
    /\ quality = NoQuality
    /\ serp = NoSerp

AnalyzeTextQuality ==
    /\ quality = NoQuality
    /\ quality' = analyze_text_quality(text)
    /\ UNCHANGED <<text, sessionVars, serp>>

NextQuality == AnalyzeTextQuality

SpecQuality == InitQuality /\ [][NextQuality]_vars

---------------------------------------------------------------------------
(* Properties *)

\* The scrape_and_analyze call of the last display is over.
CallOver == pc = "idle" /\ outcome \in {"returned", "raised"}

Stored == {u \in URLS : analysis_results[u] # NoRecord}

\* C1: every call of scrape_and_analyze returns exactly one record and lets
\* no exception escape, whatever the URL and whatever the stages did.
C1_OneRecordNoEscape ==
    CallOver => (outcome = "returned" /\ cur_url \in Stored)

\* C2: every record with success = false has combined_score 0 and the
\* neutral sentiment {compound: 0, pos: 0, neu: 1, neg: 0}.
C2_FailureDefaults ==
    \A u \in Stored :
        ~analysis_results[u].success =>
            /\ analysis_results[u].combined_score = [num |-> 0, den |-> 1]
            /\ analysis_results[u].sentiment_detailed
                 = [compound |-> 0, neg |-> 0, neu |-> 1000, pos |-> 0]

\* A record of a call that failed in the scoring stage, after a good fetch.
C2_Witness ==
    \E u \in Stored :
        /\ ~analysis_results[u].success
        /\ analysis_results[u].summary.error = "lexicon"

\* C3: a non-2xx answer is not retried: the call it occurs in sends exactly
\* one GET, and its record has success = false.
C3_NoRetryOnHttpStatus ==
    (trace # <<>> /\ trace[1] = "404") =>
        /\ Len(trace) = 1
        /\ CallOver => (outcome = "returned" /\ ~analysis_results[cur_url].success)

\* C4 as claimed: one call of scrape_with_retry sends at most 3 GETs.
C4_AtMostThreeGets == Len(trace) <= max_retries

\* C4 as amended: one call of scrape_with_retry makes at most 3 attempts of
\* at most 2 GETs each (the second after an accept button), so at most 6 GETs.
C4_AtMostSixGets ==
    /\ attempt < max_retries
    /\ Len(trace) <= 2 * max_retries
    /\ Cardinality({i \in DOMAIN trace : trace[i] # "200"}) <= max_retries

\* A call that sent 6 GETs: three times a 200 page with an accept button
\* whose second GET raised.
C4_Witness == CallOver /\ Len(trace) = 6

\* C5: the ContentAnalyzer that scores a page is constructed with the
\* language the operator selected for that run.
C5_SelectedLanguageScores ==
    analyzer_language # "none" => analyzer_language = sel_language

\* C6: a page fetched with status 200 from which no text is extracted gives
\* a record with success = true, word_count 0, keyword_ratio 0, quality
\* score 0.5 and combined_score 0.10 (the VADER lexicon being installed).
C6_EmptyExtractionSucceeds ==
    (/\ CallOver
     /\ response.kind = "resp"
     /\ response.status = 200
     /\ Normalize(Raw(response.page)) = <<>>
     /\ cur_url \in Stored
     /\ analysis_results[cur_url].summary.error # "lexicon")
    => /\ analysis_results[cur_url].success
       /\ analysis_results[cur_url].word_count = 0
       /\ analysis_results[cur_url].keyword_analysis.keyword_ratio = [num |-> 0, den |-> 1]
       /\ analysis_results[cur_url].text_quality.sentence_length_score = 5
       /\ analysis_results[cur_url].combined_score = [num |-> 1, den |-> 10]

\* C7: the quality score follows strict thresholds on the mean sentence
\* length: below 5 gives 0.5, above 40 gives 0.7, anything else 1.0.
C7_StrictThresholds ==
    quality # NoQuality =>
        LET m == quality.avg_sentence_length
        IN  quality.sentence_length_score =
                CASE m.num < 5 * m.den -> 5
                  [] m.num > 40 * m.den -> 7
                  [] OTHER -> 10

\* A text of several sentences whose mean is exactly 5, scored 1.0.
C7_Witness ==
    /\ quality # NoQuality
    /\ quality.avg_sentence_length = [num |-> 5, den |-> 1]
    /\ quality.sentence_length_score = 10
    /\ \E i \in DOMAIN text : text[i].ch = "."

\* C8 as claimed: every record carries a quality score of 0.5, 0.7 or 1.0.
C8_ScoreInBuckets ==
    \A u \in Stored :
        analysis_results[u].text_quality.sentence_length_score \in {5, 7, 10}

\* C8 as amended: every successful record carries a quality score of 0.5,
\* 0.7 or 1.0, and every failed record carries the score 0.
C8_ScoreInBucketsOrZero ==
    \A u \in Stored :
        analysis_results[u].text_quality.sentence_length_score
            \in (IF analysis_results[u].success THEN {5, 7, 10} ELSE {0})

\* A failed record beside a successful one of the 0.7 bucket.
C8_Witness ==
    \E u, v \in Stored :
        /\ ~analysis_results[u].success
        /\ analysis_results[v].success
        /\ analysis_results[v].text_quality.sentence_length_score = 7

\* The mean number of whitespace-delimited tokens per sentence when the
\* sentences end at the characters in seps: the tokens of the text with each
\* separator read as a space, over one more than the number of separators.
MeanTokensPerSentence(t, seps) ==
    Frac(count_words([i \in DOMAIN t |-> IF t[i].ch \in seps THEN Sp ELSE t[i]]),
         1 + Cardinality({i \in DOMAIN t : t[i].ch \in seps}))

\* C9 as claimed: avg_sentence_length is the mean number of tokens per
\* sentence, the sentences ending at every '.', '!' and '?'.
C9_SplitsAtAllPunctuation ==
    quality # NoQuality =>
        quality.avg_sentence_length = MeanTokensPerSentence(text, {".", "!", "?"})

\* C9 as amended: avg_sentence_length is the mean number of tokens per
\* piece, the pieces ending at every '.' only ('!' and '?' end none).
C9_SplitsAtDotOnly ==
    quality # NoQuality =>
        quality.avg_sentence_length = MeanTokensPerSentence(text, {"."})

\* A text with a '.', and a '!' or '?' that ends no sentence.
C9_Witness ==
    /\ quality # NoQuality
    /\ \E i \in DOMAIN text : text[i].ch = "."
    /\ \E i \in DOMAIN text : text[i].ch \in {"!", "?"}
    /\ quality.avg_sentence_length # MeanTokensPerSentence(text, {".", "!", "?"})

\* C10: within a session scrape_and_analyze is invoked at most once per
\* distinct URL.
C10_AtMostOneCallPerUrl == \A u \in URLS : calls[u] <= 1

\* Once a record is stored for a URL it stays as it is and no further call
\* is made for that URL.
StoredRecordKept ==
    [][\A u \in Stored :
          analysis_results'[u] = analysis_results[u] /\ calls'[u] = calls[u]]_vars

\* ceil(n / PageSize)
CeilPages(n) == (n + PageSize - 1) \div PageSize

\* The batches fetched so far, concatenated in request order.
RECURSIVE Fetched(_)
Fetched(r) ==
    IF r = 0 THEN <<>>
    ELSE Fetched(r - 1) \o [i \in 1..serp.batches[r] |-> <<r, i>>]

\* C11: get_all_serp_results makes at most ceil(num_results / 10) requests,
\* at the start offsets 0, 10, 20, ..., never asks for a further one once
\* that many are made, always comes to an end, and returns at most
\* num_results results that are a prefix of the fetched batches concatenated
\* in request order.  It ends without returning only when no SERPAPI_KEY is
\* configured: st.stop() then ends the script run before any request, so
\* with a key, whatever the search API answers, it always returns.
C11_BoundedPagination ==
    /\ Len(serp.offsets) <= CeilPages(serp.num_results)
    /\ \A i \in DOMAIN serp.offsets : serp.offsets[i] = 10 * (i - 1)
    /\ ENABLED SerpRequest => Len(serp.offsets) < CeilPages(serp.num_results)
    /\ serp.pc \notin {"done", "stopped"} => ENABLED NextSerp
    /\ serp.pc = "stopped" => (~serp.has_key /\ serp.offsets = <<>>)
    /\ serp.pc = "done" =>
          /\ Len(serp.result) <= serp.num_results
          /\ serp.result = SubSeq(Fetched(Len(serp.batches)), 1, Len(serp.result))

\* A call that needed all its ceil(num_results / 10) = 3 requests and cut
\* the results it fetched down to num_results.
C11_Witness ==
    /\ serp.pc = "done"
    /\ serp.has_key
    /\ Len(serp.offsets) = 3
    /\ Len(serp.offsets) = CeilPages(serp.num_results)
    /\ Len(serp.all_results) > serp.num_results
    /\ Len(serp.result) = serp.num_results

====
